---- MODULE Spec2Model ----
(***************************************************************************)
(* Model of the wrong-way detector of src/Yolo.ipynb: the IOU association  *)
(* tracker inside process_video_for_wrong_way and the direction classifier *)
(* determine_direction.  One step of the model is one iteration of the     *)
(* frame loop (lines 231-376): association, spawning, classification.      *)
(*                                                                         *)
(* Coordinates are integers, so int() in calculate_centroid is the         *)
(* identity.  An IOU is kept as the exact fraction <<intersection, union>> *)
(* and compared by cross-multiplication; the boxes used keep every IOU     *)
(* away from the threshold 0.3 itself, where float rounding would decide.  *)
(* Python indices are kept 0-based: index i is element i+1 of a sequence.  *)
(***************************************************************************)
EXTENDS Integers, Sequences, FiniteSets, TLC

\* ------------------------------------------------------------------ bounds
\* Number of frames of each modelled video.
CrossingFrames == 3
LaneFrames == 6
LongFrames == 12
ExampleFrames == 3
JitterFrames == 3
ScenarioFrames == 3
DegenerateFrames == 3
GapFrames == 7

\* ------------------------------------------------------- program constants
HISTORY_BUFFER_SIZE == 10
MIN_MOVEMENT_PIXELS == 10
\* "if frame_idx - obj_data['last_seen_frame'] < 5"
TRACK_GRACE_FRAMES == 5
\* "max_iou > 0.3", as the fraction 3/10
MATCH_THRESHOLD == <<3, 10>>
\* DETECTION_LINE_Y = None / DETECTION_LINE_X = None
NoLine == -1

VARIABLES
    video_path,               \* the video being processed
    frame_width, frame_height, total_frames,
    FLOW_TYPE, EXPECTED_DIRECTION,
    frame_idx,                \* index of the next frame the loop reads
    next_object_id,
    tracked_objects,          \* insertion-ordered dict: sequence of track records
    object_centroid_history,  \* obj_id -> deque of centroids
    object_direction_status,  \* obj_id -> "correct" | "wrong"
    DETECTION_LINE_Y, DETECTION_LINE_X,
    \* locals of the last loop iteration, as they stand at its end
    current_frame_detections,
    matched_current_indices,
    best_match_idx,           \* obj_id -> best_match_idx at line 293
    max_iou,                  \* obj_id -> max_iou at line 293
    direction_status,         \* obj_id -> value returned at line 332
    prev_tracked_objects,     \* tracked_objects as iterated at line 262
    prev_object_direction_status, \* object_direction_status when the frame began
    birth_frame,              \* id -> frame_idx at lines 312-317, where the track was created
    detection_counts          \* len(current_frame_detections) of each frame of the run

vars == <<video_path, frame_width, frame_height, total_frames, FLOW_TYPE,
          EXPECTED_DIRECTION, frame_idx, next_object_id, tracked_objects,
          object_centroid_history, object_direction_status, DETECTION_LINE_Y,
          DETECTION_LINE_X, current_frame_detections, matched_current_indices,
          best_match_idx, max_iou, direction_status, prev_tracked_objects,
          prev_object_direction_status, birth_frame, detection_counts>>

\* ---------------------------------------------------------------- geometry
calculate_centroid(bbox) ==
    <<(bbox[1] + bbox[3]) \div 2, (bbox[2] + bbox[4]) \div 2>>

Max(a, b) == IF a > b THEN a ELSE b
Min(a, b) == IF a < b THEN a ELSE b

\* overlap_width / overlap_height: clamped at 0
ClampedOverlap(lo, hi) == Max(0, hi - lo)

\* the same with the clamp forgotten
UnclampedOverlap(lo, hi) == hi - lo

Overlap(lo, hi) == ClampedOverlap(lo, hi)

intersection_area(bbox1, bbox2) ==
    LET x_overlap_min == Max(bbox1[1], bbox2[1])
        y_overlap_min == Max(bbox1[2], bbox2[2])
        x_overlap_max == Min(bbox1[3], bbox2[3])
        y_overlap_max == Min(bbox1[4], bbox2[4])
    IN  Overlap(x_overlap_min, x_overlap_max) * Overlap(y_overlap_min, y_overlap_max)

box_area(bbox) == (bbox[3] - bbox[1]) * (bbox[4] - bbox[2])

\* an empty union taken as a perfect overlap
IOUEmptyUnionIsOne(bbox1, bbox2) ==
    LET inter == intersection_area(bbox1, bbox2)
        union_area == box_area(bbox1) + box_area(bbox2) - inter
    IN  IF union_area > 0 THEN <<inter, union_area>> ELSE <<1, 1>>

\* iou = intersection_area / union_area if union_area > 0 else 0
IOU(bbox1, bbox2) ==
    LET inter == intersection_area(bbox1, bbox2)
        union_area == box_area(bbox1) + box_area(bbox2) - inter
    IN  IF union_area > 0 THEN <<inter, union_area>> ELSE <<0, 1>>

\* a > b for fractions with positive denominators
FracGt(a, b) == a[1] * b[2] > b[1] * a[2]

\* ---------------------------------------------------------- detector input
Box(x, y, size) == <<x, y, x + size, y + size>>

\* the dict appended at lines 249-254 ('conf' is never read again)
Detection(bbox, cls) ==
    [bbox |-> bbox, cls |-> cls, centroid |-> calculate_centroid(bbox)]

D0 == Detection(Box(0, 0, 40), 2)
D6 == Detection(Box(6, 6, 40), 3)
D12 == Detection(Box(12, 12, 40), 7)
D18 == Detection(Box(18, 18, 40), 2)
D70 == Detection(Box(70, 70, 40), 5)
D300 == Detection(Box(300, 100, 40), 2)
E1 == Detection(<<0, 0, 10, 10>>, 2)
E2 == Detection(<<100, 100, 110, 110>>, 2)
\* one vehicle around the middle of a 400x300 frame
P1 == Detection(Box(168, 118, 40), 2)
P2 == Detection(Box(180, 130, 40), 2)
P3 == Detection(Box(192, 142, 40), 2)
\* the same vehicle shifted by 6 and by 10 pixels down, and by 12 to the right
J6 == Detection(Box(180, 136, 40), 2)
J10 == Detection(Box(180, 140, 40), 2)
X12 == Detection(Box(192, 130, 40), 2)
\* a tall vehicle whose centroid is at (50, y): the scenarios of a 400x300 frame
Tall(y) == Detection(<<40, y - 70, 60, y + 70>>, 7)
\* boxes without area: a point and a horizontal segment inside D0
Z0 == Detection(<<20, 20, 20, 20>>, 2)
ZL == Detection(<<0, 20, 40, 20>>, 2)

Videos == {"crossing", "lane", "long", "example", "jitter", "scenario", "degenerate", "gap"}

\* cv2.CAP_PROP_FRAME_COUNT
FrameCount(video) ==
    CASE video = "crossing" -> CrossingFrames
      [] video = "lane" -> LaneFrames
      [] video = "long" -> LongFrames
      [] video = "jitter" -> JitterFrames
      [] video = "scenario" -> ScenarioFrames
      [] video = "degenerate" -> DegenerateFrames
      [] video = "gap" -> GapFrames
      [] OTHER -> ExampleFrames

\* <<cv2.CAP_PROP_FRAME_WIDTH, cv2.CAP_PROP_FRAME_HEIGHT>>
FrameSize(video) == IF video = "example" THEN <<200, 120>> ELSE <<400, 300>>

\* what the detector may report for one frame of the video (lines 238-254)
DetectorOutputs(video) ==
    CASE video = "crossing" ->
            {<<>>, <<D0>>, <<D6>>, <<D12>>, <<D0, D12>>, <<D12, D0>>, <<D6, D12>>,
             <<D6, D18>>, <<D0, D70>>, <<D70, D300>>, <<D0, D6, D12>>, <<D12, D6, D0>>}
      [] video = "lane" -> {<<>>, <<P1>>, <<P2>>, <<P3>>}
      [] video = "long" -> {<<P1>>, <<P2>>}
      [] video = "jitter" -> {<<P2>>, <<J6>>, <<J10>>, <<X12>>}
      [] video = "scenario" ->
            {<<Tall(200)>>, <<Tall(150)>>, <<Tall(90)>>,
             <<Tall(50)>>, <<Tall(110)>>, <<Tall(180)>>}
      [] video = "degenerate" -> {<<D0>>, <<Z0>>, <<ZL>>, <<Z0, D0>>, <<D0, ZL>>}
      [] video = "gap" -> {<<>>, <<P1>>}
      [] OTHER -> {<<E1>>, <<E1, E2>>}

Configs == {<<"vertical_flow", "down">>, <<"vertical_flow", "up">>,
            <<"horizontal_flow", "right">>, <<"horizontal_flow", "left">>}

\* ------------------------------------------------------------- association
\* lines 266-291: the detection this track prefers among those not yet matched
RECURSIVE ScanBest(_, _, _, _, _, _)
ScanBest(bbox1, dets, matched, i, best, maxiou) ==
    IF i >= Len(dets) THEN <<best, maxiou>>
    ELSE IF i \in matched THEN ScanBest(bbox1, dets, matched, i + 1, best, maxiou)
    ELSE LET iou == IOU(bbox1, dets[i + 1].bbox)
         IN  IF FracGt(iou, maxiou)
             THEN ScanBest(bbox1, dets, matched, i + 1, i, iou)
             ELSE ScanBest(bbox1, dets, matched, i + 1, best, maxiou)

\* a scan that stops at the first detection above the threshold
RECURSIVE ScanFirst(_, _, _, _, _, _)
ScanFirst(bbox1, dets, matched, i, best, maxiou) ==
    IF i >= Len(dets) THEN <<best, maxiou>>
    ELSE IF i \in matched THEN ScanFirst(bbox1, dets, matched, i + 1, best, maxiou)
    ELSE LET iou == IOU(bbox1, dets[i + 1].bbox)
         IN  IF FracGt(iou, MATCH_THRESHOLD) THEN <<i, iou>>
             ELSE ScanFirst(bbox1, dets, matched, i + 1, best, maxiou)

Scan(bbox1, dets, matched, i, best, maxiou) ==
    ScanBest(bbox1, dets, matched, i, best, maxiou)

\* line 267: detections already matched in this frame are skipped
SkipMatched(matched) == matched

\* the skip forgotten
SkipNothing(matched) == {}

Skipped(matched) == SkipMatched(matched)

\* the grace comparison off by one frame
WithinGraceInclusive(frame, last_seen_frame) ==
    frame - last_seen_frame <= TRACK_GRACE_FRAMES

\* line 305
WithinGrace(frame, last_seen_frame) == frame - last_seen_frame < TRACK_GRACE_FRAMES

\* lines 295-300 and 312-317
TrackOf(id, det, frame) ==
    [obj_id |-> id, bbox |-> det.bbox, centroid |-> det.centroid,
     cls |-> det.cls, last_seen_frame |-> frame]

\* the track takes the detection's box and class but keeps its old centroid
StaleCentroid(obj, det, frame) ==
    [obj_id |-> obj.obj_id, bbox |-> det.bbox, centroid |-> obj.centroid,
     cls |-> det.cls, last_seen_frame |-> frame]

\* lines 295-300: the entry written under the same obj_id
RefreshedTrack(obj, det, frame) == TrackOf(obj.obj_id, det, frame)

UpdatedTrack(obj, det, frame) == RefreshedTrack(obj, det, frame)

\* lines 262-306, from track k on; a is the state of the loop
RECURSIVE MatchLoop(_, _, _, _, _)
MatchLoop(objs, k, dets, frame, a) ==
    IF k > Len(objs) THEN a
    ELSE LET obj == objs[k]
             s == Scan(obj.bbox, dets, Skipped(a.matched), 0, -1, <<0, 1>>)
             hit == s[1] # -1 /\ FracGt(s[2], MATCH_THRESHOLD)
             kept == IF hit THEN Append(a.new, UpdatedTrack(obj, dets[s[1] + 1], frame))
                     ELSE IF WithinGrace(frame, obj.last_seen_frame)
                          THEN Append(a.new, obj)
                          ELSE a.new
         IN  MatchLoop(objs, k + 1, dets, frame,
                 [new |-> kept,
                  matched |-> IF hit THEN a.matched \cup {s[1]} ELSE a.matched,
                  best |-> a.best @@ (obj.obj_id :> s[1]),
                  maxiou |-> a.maxiou @@ (obj.obj_id :> s[2])])

\* the same loop taking the tracks last to first
RECURSIVE MatchLoopReversed(_, _, _, _, _)
MatchLoopReversed(objs, k, dets, frame, a) ==
    IF k > Len(objs) THEN a
    ELSE LET obj == objs[Len(objs) + 1 - k]
             s == Scan(obj.bbox, dets, Skipped(a.matched), 0, -1, <<0, 1>>)
             hit == s[1] # -1 /\ FracGt(s[2], MATCH_THRESHOLD)
             kept == IF hit THEN <<TrackOf(obj.obj_id, dets[s[1] + 1], frame)>> \o a.new
                     ELSE IF WithinGrace(frame, obj.last_seen_frame)
                          THEN <<obj>> \o a.new
                          ELSE a.new
         IN  MatchLoopReversed(objs, k + 1, dets, frame,
                 [new |-> kept,
                  matched |-> IF hit THEN a.matched \cup {s[1]} ELSE a.matched,
                  best |-> a.best @@ (obj.obj_id :> s[1]),
                  maxiou |-> a.maxiou @@ (obj.obj_id :> s[2])])

MatchTracks(objs, k, dets, frame, a) == MatchLoop(objs, k, dets, frame, a)

\* line 318: next_object_id += 1
IncrementedId(id) == id + 1

\* the increment forgotten
SameId(id) == id

NextId(id) == IncrementedId(id)

\* lines 310-318, from detection i on
RECURSIVE SpawnLoop(_, _, _, _, _, _)
SpawnLoop(dets, i, matched, frame, new, nid) ==
    IF i >= Len(dets) THEN <<new, nid>>
    ELSE IF i \in matched THEN SpawnLoop(dets, i + 1, matched, frame, new, nid)
    ELSE SpawnLoop(dets, i + 1, matched, frame,
                   Append(new, TrackOf(nid, dets[i + 1], frame)), NextId(nid))

\* lines 259-319 for one frame
Associate(objs, dets, frame, nid) ==
    LET a == MatchTracks(objs, 1, dets, frame,
                 [new |-> <<>>, matched |-> {}, best |-> <<>>, maxiou |-> <<>>])
        s == SpawnLoop(dets, 0, a.matched, frame, a.new, nid)
    IN  [tracked_objects |-> s[1], next_object_id |-> s[2],
         matched_current_indices |-> a.matched,
         best_match_idx |-> a.best, max_iou |-> a.maxiou]

\* ---------------------------------------------------------- classification
\* deque(maxlen=HISTORY_BUFFER_SIZE).append
DequeAppend(history, c) ==
    IF Len(history) >= HISTORY_BUFFER_SIZE
    THEN Append(Tail(history), c)
    ELSE Append(history, c)

\* a plain list in place of the bounded deque
ListAppend(history, c) == Append(history, c)

HistoryAppend(history, c) == DequeAppend(history, c)

Abs(n) == IF n < 0 THEN -n ELSE n

\* line 139: old_centroid = history[0]
OldestCentroid(history) == history[1]

\* the sample before the newest in place of the oldest
PreviousCentroid(history) == history[Len(history) - 1]

OldCentroid(history) == OldestCentroid(history)

\* lines 156 and 172: abs(d) > MIN_MOVEMENT_PIXELS
MovedMoreThanMinimum(d) == Abs(d) > MIN_MOVEMENT_PIXELS

\* any movement at all taken as enough
MovedAtAll(d) == Abs(d) > 0

MovedEnough(d) == MovedMoreThanMinimum(d)

\* lines 165 and 181: current_centroid[..] < DETECTION_LINE
StrictlyBefore(c, line) == c < line

\* the line itself counted as before it
BeforeOrOn(c, line) == c <= line

BeforeLine(c, line) == StrictlyBefore(c, line)

\* lines 168 and 184: current_centroid[..] > DETECTION_LINE
AfterLine(c, line) == c > line

\* lines 150 and 152: "... is None"
IsNone(line) == line = NoLine

\* the line computed again on every call
AlwaysNone(line) == TRUE

LineUnset(line) == IsNone(line)

\* lines 124-187; g holds the globals the function reads and writes
determine_direction(object_id, centroid, width, height, g) ==
    LET old == IF object_id \in DOMAIN g.history THEN g.history[object_id] ELSE <<>>
        history == HistoryAppend(old, centroid)
        hist == g.history @@ (object_id :> history)
        h2 == [id \in DOMAIN hist |-> IF id = object_id THEN history ELSE hist[id]]
    IN  IF Len(history) < 2
        THEN [result |-> "none", history |-> h2, line_y |-> g.line_y, line_x |-> g.line_x]
        ELSE
        LET old_centroid == OldCentroid(history)
            current_centroid == history[Len(history)]
            dx == current_centroid[1] - old_centroid[1]
            dy == current_centroid[2] - old_centroid[2]
            line_y == IF FLOW_TYPE = "vertical_flow" /\ LineUnset(g.line_y)
                      THEN height \div 2 ELSE g.line_y
            line_x == IF FLOW_TYPE = "horizontal_flow"
                         /\ ~(FLOW_TYPE = "vertical_flow" /\ LineUnset(g.line_y))
                         /\ LineUnset(g.line_x)
                      THEN width \div 2 ELSE g.line_x
            direction ==
                IF FLOW_TYPE = "vertical_flow"
                THEN IF MovedEnough(dy)
                     THEN (IF dy > 0 THEN "down" ELSE "up") ELSE "none"
                ELSE IF FLOW_TYPE = "horizontal_flow"
                THEN IF MovedEnough(dx)
                     THEN (IF dx > 0 THEN "right" ELSE "left") ELSE "none"
                ELSE "none"
            is_wrong_way ==
                IF FLOW_TYPE = "vertical_flow"
                THEN /\ direction # "none"
                     /\ \/ EXPECTED_DIRECTION = "down" /\ direction = "up"
                              /\ BeforeLine(current_centroid[2], line_y)
                        \/ EXPECTED_DIRECTION = "up" /\ direction = "down"
                              /\ AfterLine(current_centroid[2], line_y)
                ELSE IF FLOW_TYPE = "horizontal_flow"
                THEN /\ direction # "none"
                     /\ \/ EXPECTED_DIRECTION = "right" /\ direction = "left"
                              /\ BeforeLine(current_centroid[1], line_x)
                        \/ EXPECTED_DIRECTION = "left" /\ direction = "right"
                              /\ AfterLine(current_centroid[1], line_x)
                ELSE FALSE
        IN  [result |-> IF is_wrong_way THEN "wrong"
                        ELSE IF direction # "none" THEN "correct" ELSE "none",
             history |-> h2, line_y |-> line_y, line_x |-> line_x]

\* lines 333-334: if direction_status: object_direction_status[obj_id] = ...
OverwriteVerdict(status, id, result) ==
    IF result # "none"
    THEN [x \in DOMAIN status \cup {id} |-> IF x = id THEN result ELSE status[x]]
    ELSE status

\* a verdict that stays "wrong" once it has been "wrong"
LatchVerdict(status, id, result) ==
    IF result # "none" /\ ~(id \in DOMAIN status /\ status[id] = "wrong")
    THEN [x \in DOMAIN status \cup {id} |-> IF x = id THEN result ELSE status[x]]
    ELSE status

StoreVerdict(status, id, result) == OverwriteVerdict(status, id, result)

\* only the tracks matched or created in the frame
StampedOnly(objs, frame) == SelectSeq(objs, LAMBDA obj : obj.last_seen_frame = frame)

\* line 323: every entry of tracked_objects, all of which hold a centroid
EveryTrack(objs, frame) == objs

ClassifiedTracks(objs, frame) == EveryTrack(objs, frame)

\* lines 323-334, from track k on
RECURSIVE ClassifyLoop(_, _, _, _, _)
ClassifyLoop(objs, k, width, height, g) ==
    IF k > Len(objs) THEN g
    ELSE LET obj == objs[k]
             r == determine_direction(obj.obj_id, obj.centroid, width, height, g)
         IN  ClassifyLoop(objs, k + 1, width, height,
                 [history |-> r.history, line_y |-> r.line_y, line_x |-> r.line_x,
                  status |-> StoreVerdict(g.status, obj.obj_id, r.result),
                  returned |-> g.returned @@ (obj.obj_id :> r.result)])

\* lines 226-229: the globals are reset for each run
ResetGlobal(old, fresh) == fresh

\* the reset forgotten
KeepGlobal(old, fresh) == old

FreshGlobal(old, fresh) == ResetGlobal(old, fresh)

\* ------------------------------------------------------------------ actions
\* lines 199-229: the state in which the frame loop starts
RunStarts(video) ==
    /\ video_path' = video
    /\ frame_width' = FrameSize(video)[1]
    /\ frame_height' = FrameSize(video)[2]
    /\ total_frames' = FrameCount(video)
    /\ frame_idx' = 0
    /\ next_object_id' = 0
    /\ tracked_objects' = <<>>
    /\ object_centroid_history' = FreshGlobal(object_centroid_history, <<>>)
    /\ object_direction_status' = FreshGlobal(object_direction_status, <<>>)
    /\ DETECTION_LINE_Y' = FreshGlobal(DETECTION_LINE_Y, NoLine)
    /\ DETECTION_LINE_X' = FreshGlobal(DETECTION_LINE_X, NoLine)
    /\ current_frame_detections' = <<>>
    /\ matched_current_indices' = {}
    /\ best_match_idx' = <<>>
    /\ max_iou' = <<>>
    /\ direction_status' = <<>>
    /\ prev_tracked_objects' = <<>>
    /\ prev_object_direction_status' = <<>>
    /\ birth_frame' = <<>>
    /\ detection_counts' = <<>>

Init ==
    /\ \E c \in Configs : FLOW_TYPE = c[1] /\ EXPECTED_DIRECTION = c[2]
    /\ \E video \in Videos :
        /\ video_path = video
        /\ frame_width = FrameSize(video)[1]
        /\ frame_height = FrameSize(video)[2]
        /\ total_frames = FrameCount(video)
    /\ frame_idx = 0
    /\ next_object_id = 0
    /\ tracked_objects = <<>>
    /\ object_centroid_history = <<>>
    /\ object_direction_status = <<>>
    /\ DETECTION_LINE_Y = NoLine
    /\ DETECTION_LINE_X = NoLine
    /\ current_frame_detections = <<>>
    /\ matched_current_indices = {}
    /\ best_match_idx = <<>>
    /\ max_iou = <<>>
    /\ direction_status = <<>>
    /\ prev_tracked_objects = <<>>
    /\ prev_object_direction_status = <<>>
    /\ birth_frame = <<>>
    /\ detection_counts = <<>>

\* one iteration of the frame loop, lines 231-376
ProcessFrame ==
    /\ frame_idx < total_frames
    /\ \E dets \in DetectorOutputs(video_path) :
        \E a \in {Associate(tracked_objects, dets, frame_idx, next_object_id)} :
        \E g \in {ClassifyLoop(ClassifiedTracks(a.tracked_objects, frame_idx), 1,
                     frame_width, frame_height,
                     [history |-> object_centroid_history,
                      line_y |-> DETECTION_LINE_Y, line_x |-> DETECTION_LINE_X,
                      status |-> object_direction_status, returned |-> <<>>])} :
            /\ current_frame_detections' = dets
            /\ prev_tracked_objects' = tracked_objects
            /\ prev_object_direction_status' = object_direction_status
            /\ birth_frame' =
                  [id \in DOMAIN birth_frame \cup
                         {a.tracked_objects[j].obj_id : j \in DOMAIN a.tracked_objects} |->
                      IF id \in DOMAIN birth_frame THEN birth_frame[id] ELSE frame_idx]
            /\ detection_counts' = Append(detection_counts, Len(dets))
            /\ tracked_objects' = a.tracked_objects
            /\ next_object_id' = a.next_object_id
            /\ matched_current_indices' = a.matched_current_indices
            /\ best_match_idx' = a.best_match_idx
            /\ max_iou' = a.max_iou
            /\ object_centroid_history' = g.history
            /\ object_direction_status' = g.status
            /\ DETECTION_LINE_Y' = g.line_y
            /\ DETECTION_LINE_X' = g.line_x
            /\ direction_status' = g.returned
    /\ frame_idx' = frame_idx + 1
    /\ UNCHANGED <<video_path, frame_width, frame_height, total_frames,
                   FLOW_TYPE, EXPECTED_DIRECTION>>

\* the loop has ended (range exhausted at line 231; a failed cap.read() at line
\* 233 ends it the same way) and process_video_for_wrong_way is called again
StartRun ==
    /\ frame_idx = total_frames
    /\ \E video \in Videos : RunStarts(video)
    /\ UNCHANGED <<FLOW_TYPE, EXPECTED_DIRECTION>>

\* lines 200-202: the video cannot be opened, the call returns with nothing reset
OpenFails ==
    /\ frame_idx = total_frames
    /\ UNCHANGED vars

Next == ProcessFrame \/ StartRun \/ OpenFails

Spec == Init /\ [][Next]_vars

\* --------------------------------------------------------------- vocabulary
\* the frame the last loop iteration processed
CurrentFrame == frame_idx - 1

\* a step of the model that is one iteration of the frame loop
FrameStep == frame_idx' = frame_idx + 1

LiveIds(objs) == {objs[j].obj_id : j \in DOMAIN objs}

\* the track was updated from a detection in the last frame
Stamped(id) ==
    \E j \in DOMAIN tracked_objects :
        /\ tracked_objects[j].obj_id = id
        /\ tracked_objects[j].last_seen_frame = CurrentFrame

\* the track holds exactly this detection's data, stamped with the last frame
MatchedTo(id, det) ==
    \E j \in DOMAIN tracked_objects : tracked_objects[j] = TrackOf(id, det, CurrentFrame)

\* the track was in the live set before the last frame and is not in it any more
Removed(id) == id \in LiveIds(prev_tracked_objects) /\ id \notin LiveIds(tracked_objects)

\* the track is still live exactly as it was before the last frame
Coasting(k) == \E j \in DOMAIN tracked_objects : tracked_objects[j] = prev_tracked_objects[k]

\* the detections (0-based) taken in the last frame by tracks iterated before track k
ConsumedBefore(k) ==
    {best_match_idx[prev_tracked_objects[e].obj_id] :
        e \in {x \in 1..(k - 1) : Stamped(prev_tracked_objects[x].obj_id)}}

\* the detections (0-based) still free when track k had its turn in the last frame
FreeFor(k) == (0..(Len(current_frame_detections) - 1)) \ ConsumedBefore(k)

\* IOU of track k, as it was before the last frame, with detection i (0-based)
PrevIOU(k, i) == IOU(prev_tracked_objects[k].bbox, current_frame_detections[i + 1].bbox)

AboveThreshold(iou) == iou[1] * 10 > 3 * iou[2]

\* the two boxes share a region of positive area
SpatiallyOverlap(b1, b2) ==
    /\ Max(b1[1], b2[1]) < Min(b1[3], b2[3])
    /\ Max(b1[2], b2[2]) < Min(b1[4], b2[4])

Injections(S, T) == {f \in [S -> T] : \A a, b \in S : a # b => f[a] # f[b]}

\* ------------------------------------------------------------------- claims
\* C1: within one run every newly created track gets an identity strictly
\* greater than every identity handed out before it (those of earlier frames,
\* all of which have a motion history, and those of tracks created earlier in
\* the same frame), so the identity of a destroyed track never comes back.
C1_IdentitiesIncreaseNeverReused ==
    [][FrameStep =>
        \A j \in DOMAIN tracked_objects' :
            LET id == tracked_objects'[j].obj_id
            IN  id \notin LiveIds(tracked_objects) =>
                    /\ \A e \in DOMAIN object_centroid_history : id > e
                    /\ \A e \in LiveIds(tracked_objects) : id > e
                    /\ \A i \in 1..(j - 1) : id > tracked_objects'[i].obj_id]_vars

\* C1 witness: a track was born in the last frame while an older identity
\* has already been destroyed.
C1_Witness ==
    \E j \in DOMAIN tracked_objects :
        /\ tracked_objects[j].obj_id \notin LiveIds(prev_tracked_objects)
        /\ \E e \in DOMAIN object_centroid_history :
              e \notin LiveIds(tracked_objects) /\ e \notin LiveIds(prev_tracked_objects)

\* C2 (as claimed): a track that stops matching is still live after 5
\* unmatched frames in a row and is removed in the 6th.  With n the number of
\* consecutive frames up to the last one in which the track went unmatched:
\* n <= 5 keeps it, n = 6 removes it.
C2_SurvivesFiveUnmatchedFrames ==
    \A k \in DOMAIN prev_tracked_objects :
        LET t == prev_tracked_objects[k]
            n == CurrentFrame - t.last_seen_frame
        IN  ~Stamped(t.obj_id) =>
                /\ n <= TRACK_GRACE_FRAMES => t.obj_id \in LiveIds(tracked_objects)
                /\ n > TRACK_GRACE_FRAMES => t.obj_id \notin LiveIds(tracked_objects)

StampedTracks ==
    {j \in DOMAIN tracked_objects : tracked_objects[j].last_seen_frame = CurrentFrame}

\* C4: after every advance the detections of the frame and the live tracks
\* stamped with the current frame are in one-to-one correspondence: a consumed
\* detection with the earlier track that took it, any other detection with a
\* track new in this frame, each track carrying its detection's data.
C4_DetectionsMatchStampedTracks ==
    /\ Cardinality(StampedTracks) = Len(current_frame_detections)
    /\ \E f \in Injections(DOMAIN current_frame_detections, StampedTracks) :
          \A i \in DOMAIN current_frame_detections :
              LET t == tracked_objects[f[i]]
              IN  /\ t = TrackOf(t.obj_id, current_frame_detections[i], CurrentFrame)
                  /\ IF (i - 1) \in matched_current_indices
                     THEN /\ t.obj_id \in LiveIds(prev_tracked_objects)
                          /\ best_match_idx[t.obj_id] = i - 1
                     ELSE t.obj_id \notin LiveIds(prev_tracked_objects)

\* C4 witness: a frame with two detections, one taken by an earlier track that
\* a second earlier track also overlapped, the other spawning a track.
C4_Witness ==
    /\ Len(current_frame_detections) = 2
    /\ Cardinality(matched_current_indices) = 1
    /\ Len(prev_tracked_objects) >= 2
    /\ \E i \in matched_current_indices :
          \A k \in DOMAIN prev_tracked_objects : AboveThreshold(PrevIOU(k, i))

\* the earlier tracks whose IOU with the frame's only detection is above the threshold
Overlappers ==
    {k \in DOMAIN prev_tracked_objects : AboveThreshold(PrevIOU(k, 0))}

C6_DetectionTakesItsBestObject ==
    \A i \in 0..(Len(current_frame_detections) - 1) :
        LET best == {k \in DOMAIN prev_tracked_objects :
                        \A m \in DOMAIN prev_tracked_objects :
                            ~FracGt(PrevIOU(m, i), PrevIOU(k, i))}
        IN  (\E k \in best : AboveThreshold(PrevIOU(k, i))) =>
                \E k \in best :
                    \/ MatchedTo(prev_tracked_objects[k].obj_id,
                                 current_frame_detections[i + 1])
                    \/ /\ Stamped(prev_tracked_objects[k].obj_id)
                       /\ best_match_idx[prev_tracked_objects[k].obj_id] # i

NothingOverlaps ==
    \A k \in DOMAIN prev_tracked_objects : \A i \in DOMAIN current_frame_detections :
        ~SpatiallyOverlap(prev_tracked_objects[k].bbox, current_frame_detections[i].bbox)

\* C8: if no detection of a frame spatially overlaps the box of any track live
\* from the previous frame, every detection spawns a new track and no existing
\* track is updated from a detection.
C8_DisjointDetectionsSpawn ==
    NothingOverlaps =>
        /\ matched_current_indices = {}
        /\ \A k \in DOMAIN prev_tracked_objects :
              Removed(prev_tracked_objects[k].obj_id) \/ Coasting(k)
        /\ Cardinality(StampedTracks) = Len(current_frame_detections)
        /\ \A j \in StampedTracks :
              tracked_objects[j].obj_id \notin LiveIds(prev_tracked_objects)
        /\ \A i \in DOMAIN current_frame_detections :
              \E j \in StampedTracks :
                  tracked_objects[j] =
                      TrackOf(tracked_objects[j].obj_id, current_frame_detections[i],
                              CurrentFrame)

\* C8 witness: two detections, both clear of the two tracks already live.
C8_Witness ==
    /\ Len(prev_tracked_objects) >= 2
    /\ Len(current_frame_detections) >= 2
    /\ NothingOverlaps

\* the example of C7 has happened
C7_ExampleReached ==
    /\ Len(prev_tracked_objects) = 1
    /\ prev_tracked_objects[1].bbox = <<0, 0, 10, 10>>
    /\ current_frame_detections = <<E1, E2>>

\* every reordering of a list of detections
PermutationsOf(dets) ==
    {[i \in DOMAIN dets |-> dets[p[i]]] : p \in Injections(DOMAIN dets, DOMAIN dets)}

\* what a frame did to the earlier tracks `before`, read off the live set
\* `after` it left: which detection data each earlier track took, and the
\* boxes of the live tracks with their multiplicities
Outcome(before, after, frame) ==
    LET boxes == {after[j].bbox : j \in DOMAIN after}
    IN  [matches |-> {<<after[j].obj_id, after[j].bbox, after[j].cls>> :
                        j \in {x \in DOMAIN after :
                                 /\ after[x].last_seen_frame = frame
                                 /\ after[x].obj_id \in LiveIds(before)}},
         boxes |-> [b \in boxes |-> Cardinality({j \in DOMAIN after : after[j].bbox = b})]]

\* the outcome of the last frame had its detections been listed as p
OutcomeOf(p) ==
    Outcome(prev_tracked_objects,
            Associate(prev_tracked_objects, p, CurrentFrame, next_object_id).tracked_objects,
            CurrentFrame)

\* in the last frame no track, at its turn, had its highest IOU above the
\* threshold with two different free detections at once
NoTies ==
    \A k \in DOMAIN prev_tracked_objects : \A i, m \in FreeFor(k) :
        (/\ current_frame_detections[i + 1] # current_frame_detections[m + 1]
         /\ AboveThreshold(PrevIOU(k, i))
         /\ \A x \in FreeFor(k) : ~FracGt(PrevIOU(k, x), PrevIOU(k, i)))
            => FracGt(PrevIOU(k, i), PrevIOU(k, m))

\* C9 (as claimed): listing the detections of a frame in another order changes
\* neither the detection each existing track is matched to nor the boxes of
\* the resulting live tracks.
C9_OrderOfDetectionsIrrelevant ==
    \A p \in PermutationsOf(current_frame_detections) :
        OutcomeOf(p) = Outcome(prev_tracked_objects, tracked_objects, CurrentFrame)

\* C9 (amended): the same, for frames in which no track has its highest IOU,
\* above the threshold, with two different free detections at once.
C9_OrderIrrelevantWithoutTies ==
    NoTies =>
        \A p \in PermutationsOf(current_frame_detections) :
            OutcomeOf(p) = Outcome(prev_tracked_objects, tracked_objects, CurrentFrame)

\* C9 witness: a frame without ties in which a track had two free detections
\* above the threshold to choose from.
C9_Witness ==
    /\ NoTies
    /\ \E k \in DOMAIN prev_tracked_objects :
          /\ {0, 1} \subseteq FreeFor(k)
          /\ AboveThreshold(PrevIOU(k, 0))
          /\ AboveThreshold(PrevIOU(k, 1))
          /\ Stamped(prev_tracked_objects[k].obj_id)

\* C10: no motion history is ever longer than HISTORY_BUFFER_SIZE (10), and an
\* append to a history that holds 10 entries drops the oldest, keeps the other
\* nine in order and puts the new centroid last.
C10_HistoryBoundedAndSliding ==
    [][FrameStep =>
        /\ \A id \in DOMAIN object_centroid_history' :
              Len(object_centroid_history'[id]) <= 10
        /\ \A j \in DOMAIN tracked_objects' :
              LET id == tracked_objects'[j].obj_id
              IN  (id \in DOMAIN object_centroid_history
                     /\ Len(object_centroid_history[id]) = 10) =>
                    /\ Len(object_centroid_history'[id]) = 10
                    /\ \A x \in 1..9 :
                          object_centroid_history'[id][x] = object_centroid_history[id][x + 1]
                    /\ object_centroid_history'[id][10] = tracked_objects'[j].centroid]_vars

\* C10 witness: a track classified more than 10 times holds 10 entries, the
\* oldest of its run gone, with two different centroids among them.
C10_Witness ==
    \E j \in DOMAIN tracked_objects :
        LET h == object_centroid_history[tracked_objects[j].obj_id]
        IN  /\ tracked_objects[j].obj_id = 0
            /\ frame_idx > 10
            /\ Len(h) = 10
            /\ h[1] # h[10]

\* ------------------------------------------- vocabulary of the classifier
\* the position of the flow axis in a centroid: y for vertical flow, x otherwise
FlowAxis == IF FLOW_TYPE = "vertical_flow" THEN 2 ELSE 1

\* the position of the other axis
CrossAxis == IF FLOW_TYPE = "vertical_flow" THEN 1 ELSE 2

\* the boundary line of the configured flow
FlowLine == IF FLOW_TYPE = "vertical_flow" THEN DETECTION_LINE_Y ELSE DETECTION_LINE_X

\* the retained centroids of the track after the last frame
HistoryOf(id) == object_centroid_history[id]

\* newest minus oldest retained centroid along the flow axis
Displacement(id) ==
    HistoryOf(id)[Len(HistoryOf(id))][FlowAxis] - HistoryOf(id)[1][FlowAxis]

\* the newest centroid's coordinate along the flow axis
Position(id) == HistoryOf(id)[Len(HistoryOf(id))][FlowAxis]

\* the track was created in the last frame
Born(id) == id \in LiveIds(tracked_objects) /\ id \notin LiveIds(prev_tracked_objects)

\* the track has no stored verdict
VerdictUnknown(id) == id \notin DOMAIN object_direction_status

\* C11: whenever the history of a live track holds fewer than two centroids
\* after the append of the last frame, the classifier returned nothing for it,
\* and a track created in the last frame has no stored verdict.
C11_NothingReturnedOnFirstSample ==
    \A id \in LiveIds(tracked_objects) :
        /\ Len(HistoryOf(id)) < 2 => direction_status[id] = "none"
        /\ Born(id) => direction_status[id] = "none" /\ VerdictUnknown(id)

\* a track is born in a frame in which an older track is given a verdict
C11_Witness ==
    \E id, other \in LiveIds(tracked_objects) :
        /\ Born(id) /\ Len(HistoryOf(id)) = 1 /\ VerdictUnknown(id)
        /\ direction_status[id] = "none"
        /\ ~Born(other) /\ direction_status[other] # "none"

\* C12: whenever the displacement of a live track along the flow axis is
\* smaller in absolute value than MIN_MOVEMENT_PIXELS, the classifier returned
\* nothing for it in the last frame, whatever the length of its history.
C12_NothingReturnedBelowMinimum ==
    \A id \in LiveIds(tracked_objects) :
        Abs(Displacement(id)) < MIN_MOVEMENT_PIXELS => direction_status[id] = "none"

\* a full history whose ends are closer than the minimum although the track
\* moved in between, and nothing returned
C12_Witness ==
    \E id \in LiveIds(tracked_objects) :
        /\ Len(HistoryOf(id)) = HISTORY_BUFFER_SIZE
        /\ Abs(Displacement(id)) < MIN_MOVEMENT_PIXELS
        /\ \E i \in DOMAIN HistoryOf(id) : HistoryOf(id)[i] # HistoryOf(id)[1]
        /\ direction_status[id] = "none"

\* a displacement that is not zero and below the minimum, and nothing returned
C12_SmallMoveReached ==
    \E id \in LiveIds(tracked_objects) :
        /\ Abs(Displacement(id)) \in 1..(MIN_MOVEMENT_PIXELS - 1)
        /\ direction_status[id] = "none"

\* C13: with at least two centroids in the history of a live track the
\* classifier returned nothing exactly when the displacement is below
\* MIN_MOVEMENT_PIXELS in absolute value, and "correct" or "wrong" for every
\* displacement of at least MIN_MOVEMENT_PIXELS.
C13_DecidesFromMinimumOn ==
    \A id \in LiveIds(tracked_objects) :
        Len(HistoryOf(id)) >= 2 =>
            (direction_status[id] = "none" <=> Abs(Displacement(id)) < MIN_MOVEMENT_PIXELS)

\* what the code does: it decides only above the minimum
C13_DecidesAboveMinimumOnly ==
    \A id \in LiveIds(tracked_objects) :
        Len(HistoryOf(id)) >= 2 =>
            (direction_status[id] = "none" <=> Abs(Displacement(id)) <= MIN_MOVEMENT_PIXELS)

\* a displacement of exactly the minimum, and nothing returned
C13_ExactMinimumReached ==
    \E id \in LiveIds(tracked_objects) :
        /\ Len(HistoryOf(id)) >= 2
        /\ Abs(Displacement(id)) = MIN_MOVEMENT_PIXELS
        /\ direction_status[id] = "none"

\* the oldest retained and the newest centroid of the track
Oldest(id) == HistoryOf(id)[1]
Newest(id) == HistoryOf(id)[Len(HistoryOf(id))]

\* the track moves exactly against the expected direction and its newest
\* centroid is on the side of the line the expected flow comes from
AgainstFlowOnOriginSide(id) ==
    \/ /\ EXPECTED_DIRECTION = "down"
       /\ Newest(id)[2] < Oldest(id)[2] /\ Newest(id)[2] < DETECTION_LINE_Y
    \/ /\ EXPECTED_DIRECTION = "up"
       /\ Newest(id)[2] > Oldest(id)[2] /\ Newest(id)[2] > DETECTION_LINE_Y
    \/ /\ EXPECTED_DIRECTION = "right"
       /\ Newest(id)[1] < Oldest(id)[1] /\ Newest(id)[1] < DETECTION_LINE_X
    \/ /\ EXPECTED_DIRECTION = "left"
       /\ Newest(id)[1] > Oldest(id)[1] /\ Newest(id)[1] > DETECTION_LINE_X

WrongExample == <<(<<50, 200>>), (<<50, 150>>), (<<50, 90>>)>>
CorrectExample == <<(<<50, 50>>), (<<50, 110>>), (<<50, 180>>)>>

\* C14: whenever the classifier returned a verdict for a live track in the
\* last frame, the verdict is "wrong" exactly when the track moves against the
\* expected direction with its newest centroid on the origin side of the line,
\* and "correct" otherwise; with expected direction down and the line at 150
\* the history (50,200),(50,150),(50,90) gives "wrong" and the history
\* (50,50),(50,110),(50,180) gives "correct".
C14_WrongIffAgainstFlowOnOriginSide ==
    \A id \in LiveIds(tracked_objects) :
        /\ direction_status[id] # "none" =>
              direction_status[id] =
                  IF AgainstFlowOnOriginSide(id) THEN "wrong" ELSE "correct"
        /\ EXPECTED_DIRECTION = "down" /\ DETECTION_LINE_Y = 150 =>
              /\ HistoryOf(id) = WrongExample => direction_status[id] = "wrong"
              /\ HistoryOf(id) = CorrectExample => direction_status[id] = "correct"

\* the first example of the claim, as the classifier saw it
C14_Witness ==
    \E id \in LiveIds(tracked_objects) :
        /\ EXPECTED_DIRECTION = "down" /\ DETECTION_LINE_Y = 150
        /\ HistoryOf(id) = WrongExample
        /\ direction_status[id] = "wrong"

\* the second example of the claim
C14_CorrectExampleReached ==
    \E id \in LiveIds(tracked_objects) :
        /\ EXPECTED_DIRECTION = "down" /\ DETECTION_LINE_Y = 150
        /\ HistoryOf(id) = CorrectExample
        /\ direction_status[id] = "correct"

\* a track moving against the flow with its newest centroid on the line or
\* beyond it, and "correct" returned
C14_FarSideReached ==
    \E id \in LiveIds(tracked_objects) :
        /\ EXPECTED_DIRECTION = "down"
        /\ Newest(id)[2] < Oldest(id)[2] /\ Newest(id)[2] >= DETECTION_LINE_Y
        /\ direction_status[id] = "correct"

\* what the classifier returned for the id in the last frame; nothing for an
\* id it was not called for
ReturnedFor(id) ==
    IF id \in DOMAIN direction_status THEN direction_status[id] ELSE "none"

\* the stored verdict of the id is what it was before the last frame
VerdictUnchanged(id) ==
    /\ id \in DOMAIN object_direction_status <=> id \in DOMAIN prev_object_direction_status
    /\ id \in DOMAIN object_direction_status =>
          object_direction_status[id] = prev_object_direction_status[id]

\* C15: in a frame where the classifier returned a verdict for an id the
\* stored verdict of the id is that verdict; in a frame where it returned
\* nothing for the id the stored verdict is unchanged.
C15_VerdictFollowsReturnedValue ==
    \A id \in DOMAIN object_direction_status \cup DOMAIN prev_object_direction_status
                \cup DOMAIN direction_status :
        IF ReturnedFor(id) # "none"
        THEN /\ id \in DOMAIN object_direction_status
             /\ object_direction_status[id] = ReturnedFor(id)
        ELSE VerdictUnchanged(id)

\* a stored "wrong" kept through a frame in which the classifier returned
\* nothing for the live track
C15_Witness ==
    \E id \in LiveIds(tracked_objects) :
        /\ id \in DOMAIN prev_object_direction_status
        /\ prev_object_direction_status[id] = "wrong"
        /\ direction_status[id] = "none"
        /\ object_direction_status[id] = "wrong"

\* C16: a stored verdict "wrong" is no latch: it becomes "correct" in exactly
\* the frames in which the track is live, has moved more than
\* MIN_MOVEMENT_PIXELS between its oldest retained and newest centroid and is
\* not moving against the flow on the origin side of the line; such a frame
\* is reachable.
C16_WrongTurnsCorrect ==
    \A id \in DOMAIN prev_object_direction_status :
        prev_object_direction_status[id] = "wrong" =>
            (object_direction_status[id] = "correct" <=>
                /\ id \in LiveIds(tracked_objects)
                /\ Abs(Displacement(id)) > MIN_MOVEMENT_PIXELS
                /\ ~AgainstFlowOnOriginSide(id))

\* a track whose stored verdict was "wrong" before the last frame and is
\* "correct" after it
C16_Witness ==
    \E id \in DOMAIN prev_object_direction_status :
        /\ prev_object_direction_status[id] = "wrong"
        /\ object_direction_status[id] = "correct"

\* the globals as determine_direction finds them in the current state
Globals ==
    [history |-> object_centroid_history,
     line_y |-> DETECTION_LINE_Y, line_x |-> DETECTION_LINE_X]

\* frame sizes a later call could pass, the run's own among them
OtherSizes == {<<200, 120>>, <<400, 300>>, <<640, 480>>}

\* a further call for a live track with any frame size leaves a set line alone
LaterCallsKeepLine ==
    \A j \in DOMAIN tracked_objects : \A size \in OtherSizes :
        \A r \in {determine_direction(tracked_objects[j].obj_id,
                      tracked_objects[j].centroid, size[1], size[2], Globals)} :
            /\ DETECTION_LINE_Y # NoLine => r.line_y = DETECTION_LINE_Y
            /\ DETECTION_LINE_X # NoLine => r.line_x = DETECTION_LINE_X

\* the classifier got past its early return for some track in the frame that
\* the step processes
SecondSampleSeen ==
    \E id \in DOMAIN object_centroid_history' : Len(object_centroid_history'[id]) >= 2

\* C17: a run starts with no boundary line; the line of the configured flow is
\* set in the first frame in which the classifier is called with two centroids
\* in a history, to half the frame height (vertical flow) or half the frame
\* width (horizontal flow); the other line is never set; a line that is set
\* keeps its value in every later frame of the run, and a later call leaves it
\* alone whatever frame size it is given.
C17_LineSetOncePerRun ==
    [][/\ frame_idx' = 0 => DETECTION_LINE_Y' = NoLine /\ DETECTION_LINE_X' = NoLine
       /\ FrameStep =>
            /\ DETECTION_LINE_Y # NoLine => DETECTION_LINE_Y' = DETECTION_LINE_Y
            /\ DETECTION_LINE_X # NoLine => DETECTION_LINE_X' = DETECTION_LINE_X
            /\ DETECTION_LINE_Y' # NoLine <=>
                  FLOW_TYPE = "vertical_flow" /\ SecondSampleSeen
            /\ DETECTION_LINE_X' # NoLine <=>
                  FLOW_TYPE = "horizontal_flow" /\ SecondSampleSeen
            /\ DETECTION_LINE_Y' # NoLine => DETECTION_LINE_Y' = frame_height \div 2
            /\ DETECTION_LINE_X' # NoLine => DETECTION_LINE_X' = frame_width \div 2
            /\ LaterCallsKeepLine]_vars

\* the line was set in an earlier frame of the run and a live track has been
\* classified at least twice since
C17_Witness ==
    /\ FlowLine # NoLine
    /\ FlowLine = (IF FLOW_TYPE = "vertical_flow" THEN frame_height ELSE frame_width) \div 2
    /\ \E id \in LiveIds(tracked_objects) : Len(HistoryOf(id)) >= 4

\* C18: a run is a function of its detection stream and of the state it starts
\* from, and every run starts from the same state: whatever an earlier run in
\* the same process left behind, the step that begins a run leaves no live
\* track, no history, no verdict, no boundary line and the identity counter at
\* 0, that is, a state in which a first run begins.
C18_EveryRunStartsAfresh ==
    [][frame_idx' = 0 =>
          /\ Init'
          /\ tracked_objects' = <<>> /\ next_object_id' = 0
          /\ object_centroid_history' = <<>> /\ object_direction_status' = <<>>
          /\ DETECTION_LINE_Y' = NoLine /\ DETECTION_LINE_X' = NoLine
          /\ FLOW_TYPE' = FLOW_TYPE /\ EXPECTED_DIRECTION' = EXPECTED_DIRECTION]_vars

\* a run has ended and left tracks, histories, verdicts, a boundary line and
\* a used counter behind; the next run begins from this state
C18_Witness ==
    /\ frame_idx = total_frames
    /\ tracked_objects # <<>> /\ next_object_id > 1
    /\ object_centroid_history # <<>>
    /\ \E id \in DOMAIN object_direction_status : object_direction_status[id] = "wrong"
    /\ FlowLine # NoLine

\* the box has no width or no height
ZeroArea(bbox) == bbox[1] = bbox[3] \/ bbox[2] = bbox[4]

\* box b lies within box c
Inside(b, c) == c[1] <= b[1] /\ b[3] <= c[3] /\ c[2] <= b[2] /\ b[4] <= c[4]

\* detection i (1-based) of the last frame was left to the spawn loop and a
\* track born in the frame carries its data
Spawned(i) ==
    /\ (i - 1) \notin matched_current_indices
    /\ \E j \in DOMAIN tracked_objects :
          /\ Born(tracked_objects[j].obj_id)
          /\ tracked_objects[j] =
                TrackOf(tracked_objects[j].obj_id, current_frame_detections[i],
                        CurrentFrame)

\* C19: a detection without area is consumed by no existing track and spawns
\* a new track, and a track whose box has no area consumes no detection,
\* whatever the other boxes of the frame are.
C19_DegenerateBoxesNeverMatch ==
    /\ \A i \in DOMAIN current_frame_detections :
          ZeroArea(current_frame_detections[i].bbox) => Spawned(i)
    /\ \A k \in DOMAIN prev_tracked_objects :
          ZeroArea(prev_tracked_objects[k].bbox) =>
              ~Stamped(prev_tracked_objects[k].obj_id)

\* a detection without area arrives where a track with the very same box is
\* live and where it lies inside the box of another live track
C19_Witness ==
    \E i \in DOMAIN current_frame_detections :
        /\ ZeroArea(current_frame_detections[i].bbox)
        /\ \E k \in DOMAIN prev_tracked_objects :
              prev_tracked_objects[k].bbox = current_frame_detections[i].bbox
        /\ \E k \in DOMAIN prev_tracked_objects :
              /\ ~ZeroArea(prev_tracked_objects[k].bbox)
              /\ Inside(current_frame_detections[i].bbox, prev_tracked_objects[k].bbox)
        /\ Spawned(i)

\* the verdict as a function of two coordinates along the flow axis, the
\* configuration and the boundary line of the flow
VerdictFromEnds(old, new) ==
    IF Abs(new - old) <= MIN_MOVEMENT_PIXELS THEN "none"
    ELSE IF \/ /\ EXPECTED_DIRECTION \in {"down", "right"}
               /\ new < old /\ new < FlowLine
            \/ /\ EXPECTED_DIRECTION \in {"up", "left"}
               /\ new > old /\ new > FlowLine
         THEN "wrong"
         ELSE "correct"

\* C20: what the classifier returned for a live track in the last frame is
\* determined by the flow-axis coordinates of the oldest retained and of the
\* newest centroid of its history, together with the configuration and the
\* boundary line: neither the entries in between nor the coordinates along the
\* other axis enter into it.
C20_VerdictFromOldestAndNewestOnly ==
    \A id \in LiveIds(tracked_objects) :
        direction_status[id] =
            VerdictFromEnds(Oldest(id)[FlowAxis], Newest(id)[FlowAxis])

\* a track that has moved more than the minimum across the flow and whose
\* history passes, in between, through a point off both its ends along the
\* flow, with nothing returned as its ends are level along the flow
C20_Witness ==
    \E id \in LiveIds(tracked_objects) :
        /\ Len(HistoryOf(id)) >= 3
        /\ Abs(Newest(id)[CrossAxis] - Oldest(id)[CrossAxis]) > MIN_MOVEMENT_PIXELS
        /\ Newest(id)[FlowAxis] = Oldest(id)[FlowAxis]
        /\ \E i \in DOMAIN HistoryOf(id) :
              Abs(HistoryOf(id)[i][FlowAxis] - Oldest(id)[FlowAxis]) >= MIN_MOVEMENT_PIXELS
        /\ direction_status[id] = "none"

\* a verdict returned from a history with an entry in between that lies
\* outside the span of its ends
C20_DecidedAcrossDetour ==
    \E id \in LiveIds(tracked_objects) :
        /\ Len(HistoryOf(id)) >= 4
        /\ direction_status[id] # "none"
        /\ \E i \in DOMAIN HistoryOf(id) :
              HistoryOf(id)[i][FlowAxis] \notin
                  Min(Oldest(id)[FlowAxis], Newest(id)[FlowAxis]) ..
                  Max(Oldest(id)[FlowAxis], Newest(id)[FlowAxis])

\* track k of the collection as it was before the last frame found a
\* detection above the threshold in its turn
TookDetection(k) ==
    /\ best_match_idx[prev_tracked_objects[k].obj_id] # -1
    /\ AboveThreshold(max_iou[prev_tracked_objects[k].obj_id])

\* the detection that track k preferred in its turn
DetectionOf(k) ==
    current_frame_detections[best_match_idx[prev_tracked_objects[k].obj_id] + 1]

\* the live entries that carry the identity
EntriesOf(id) == {j \in DOMAIN tracked_objects : tracked_objects[j].obj_id = id}

\* C21: a track that is matched to a detection in a frame stays live under
\* its identity with the bounding box, centroid and class of that detection
\* and the current frame as its last-matched frame; a track that is not
\* matched and survives is exactly the entry it was before the frame.
C21_MatchedTakesDetectionUnmatchedUnchanged ==
    \A k \in DOMAIN prev_tracked_objects :
        IF TookDetection(k)
        THEN /\ Cardinality(EntriesOf(prev_tracked_objects[k].obj_id)) = 1
             /\ \A j \in EntriesOf(prev_tracked_objects[k].obj_id) :
                   /\ tracked_objects[j].bbox = DetectionOf(k).bbox
                   /\ tracked_objects[j].centroid = DetectionOf(k).centroid
                   /\ tracked_objects[j].cls = DetectionOf(k).cls
                   /\ tracked_objects[j].last_seen_frame = CurrentFrame
        ELSE \A j \in EntriesOf(prev_tracked_objects[k].obj_id) :
                 tracked_objects[j] = prev_tracked_objects[k]

\* in one frame a track moves onto a detection with another box and centroid
\* while another track, last matched in an earlier frame, survives unmatched
C21_Witness ==
    \E k, u \in DOMAIN prev_tracked_objects :
        /\ TookDetection(k)
        /\ DetectionOf(k).bbox # prev_tracked_objects[k].bbox
        /\ DetectionOf(k).centroid # prev_tracked_objects[k].centroid
        /\ ~TookDetection(u)
        /\ EntriesOf(prev_tracked_objects[u].obj_id) # {}
        /\ prev_tracked_objects[u].last_seen_frame < CurrentFrame - 1

\* the position of the identity in the collection before the last frame
PrevIndexOf(id) ==
    CHOOSE k \in DOMAIN prev_tracked_objects : prev_tracked_objects[k].obj_id = id

C22_SmallerIdentityWins ==
    \E k, e \in DOMAIN prev_tracked_objects :
        /\ prev_tracked_objects[e].obj_id < prev_tracked_objects[k].obj_id
        /\ TookDetection(e) /\ ~TookDetection(k)
        /\ AboveThreshold(PrevIOU(k, best_match_idx[prev_tracked_objects[e].obj_id]))
        /\ FracGt(PrevIOU(k, best_match_idx[prev_tracked_objects[e].obj_id]),
                  PrevIOU(e, best_match_idx[prev_tracked_objects[e].obj_id]))

\* the live entry of the identity
EntryOf(id) == tracked_objects[CHOOSE j \in DOMAIN tracked_objects : tracked_objects[j].obj_id = id]

C23_CappedReached ==
    \E id \in LiveIds(tracked_objects) :
        /\ CurrentFrame - birth_frame[id] + 1 > HISTORY_BUFFER_SIZE
        /\ Len(HistoryOf(id)) = HISTORY_BUFFER_SIZE

\* the number of detections received in frames first..last of the run
RECURSIVE DetectionsReceived(_, _)
DetectionsReceived(first, last) ==
    IF first > last THEN 0
    ELSE detection_counts[last + 1] + DetectionsReceived(first, last - 1)

\* the first frame of the window of TRACK_GRACE_FRAMES frames that ends with
\* the current frame
WindowStart == Max(0, CurrentFrame - (TRACK_GRACE_FRAMES - 1))

FifthUnmatchedFrame(id) ==
    /\ \E j \in DOMAIN tracked_objects :
          /\ tracked_objects[j].obj_id = id
          /\ frame_idx - tracked_objects[j].last_seen_frame >= TRACK_GRACE_FRAMES
    /\ ~\E j \in DOMAIN tracked_objects' :
          /\ tracked_objects'[j].obj_id = id
          /\ tracked_objects'[j].last_seen_frame = frame_idx

C25_RemovedInFifthFrame ==
    \E k \in DOMAIN prev_tracked_objects :
        /\ Removed(prev_tracked_objects[k].obj_id)
        /\ CurrentFrame - prev_tracked_objects[k].last_seen_frame = TRACK_GRACE_FRAMES
====
